---- MODULE Spec2Model ----
(***************************************************************************)
(* Model of the tool-calling agent of backend/ai/gemini.py (class Agent):  *)
(* tool_call and chat in memory mode and in stateless mode, the execution  *)
(* of a batch of function calls, and the resubmission of the results.      *)
(*                                                                         *)
(* A Python str is a sequence of tokens; the token " " is whitespace.      *)
(* None is the record NoneValue.  The language-model endpoint and the      *)
(* tools are the environment: each submission either fails or yields one   *)
(* completion of Completions, each tool invocation returns or raises as    *)
(* the tool's behaviour says.                                              *)
(*                                                                         *)
(* Spec is one agent serving tool_call and chat.  SpecSeed adds            *)
(* clear_memory and inject_messages, SpecTwo runs two agents with their    *)
(* steps interleaved, SpecDecl runs the declaration builder of the         *)
(* constructor over a set of tool lists.  SpecShared lets two callers     *)
(* use one memory-mode agent, SpecSend is the /send handler of             *)
(* backend/routers/chat.py over the chat_messages table, SpecReports is    *)
(* the report scheduler of backend/tasks with generate_report of           *)
(* backend/services/report_generator.py.  The SDK chat session is taken    *)
(* to keep its own list of turns and to record a message and its           *)
(* completion only when the submission succeeds.                           *)
(***************************************************************************)
EXTENDS Integers, Sequences, FiniteSets, TLC

\* ------------------------------------------------------------------ bounds
MaxSubmissions == 3      \* endpoint submissions explored on one agent
MaxSeedSubmissions == 2  \* the same, where the session is also rebuilt
MaxTwoSubmissions == 2   \* the same, for two agents together
MaxSharedSubmissions == 3  \* the same, for two callers of one agent
MaxRequests == 2         \* requests the /send handler serves
MaxTicks == 3            \* minutes the report scheduler is followed for

\* ----------------------------------------------------------- pure helpers
RECURSIVE Concat(_)
Concat(ss) == IF ss = <<>> THEN <<>> ELSE Head(ss) \o Concat(Tail(ss))

\* str.strip() is non-empty iff some token is not whitespace
IsBlank(s) == \A i \in 1..Len(s) : s[i] = " "

\* a Python value: None, or a str
NoneValue == [isNone |-> TRUE, str |-> <<>>]
Str(s) == [isNone |-> FALSE, str |-> s]

\* Part(text=...), a function_call part, Part.from_function_response(...)
TextPart(s) == [kind |-> "text", name |-> "", val |-> s]
\* a part that has text but is left out of response.text (a thought part)
ThoughtPart(s) == [kind |-> "thought", name |-> "", val |-> s]
HasText(part) == part.kind \in {"text", "thought"}
FunctionCall(n, a) == [kind |-> "function_call", name |-> n, val |-> a]
FunctionResponsePart(n, r) == [kind |-> "function_response", name |-> n, val |-> r]

\* Content(role=..., parts=...); call is the invocation that produced the turn
Turn(r, ps, c) == [role |-> r, parts |-> ps, call |-> c]

\* ---------------------------------------------------------- environment
\* the caller's prompts: the n-th invocation on an agent is given PromptOf(n),
\* so that the prompts of different invocations differ
PromptOf(n) == <<"prompt", ToString(n)>>

\* a parameter of a callable's signature: inspect.Parameter
Param(n, a, d) == [name |-> n, annotation |-> a, hasDefault |-> d]

\* a callable: __name__, docstring (<<>> when it has none), signature, and
\* what calling it does
Callable(n, doc, ps, d) == [name |-> n, doc |-> doc, params |-> ps, does |-> d]

\* the tools an agent can be built with
Echo == Callable("echo", <<"Echo.">>, <<Param("x", "str", FALSE)>>, "return")
Boom == Callable("boom", <<>>, <<Param("x", "str", FALSE), Param("n", "int", TRUE)>>, "raise")
ToolSets == {<<>>, <<Echo, Boom>>}

\* signatures the declaration builder is run on: up to two parameters of
\* different names, annotated or not, with or without a default
Annotations == {"int", "float", "bool", "str", "list", "empty"}
Signatures ==
    {<<>>}
    \cup {<<Param("a", an, d)>> : an \in Annotations, d \in BOOLEAN}
    \cup {<<Param("a", an, d), Param("b", "int", e)>> :
              an \in {"str", "empty"}, d \in BOOLEAN, e \in BOOLEAN}
    \cup {<<Param("b", "bool", d), Param("a", "list", e)>> : d \in BOOLEAN, e \in BOOLEAN}
DeclToolSets ==
    {<<>>}
    \cup {<<Callable("f", doc, ps, "return")>> : doc \in {<<>>, <<"F.">>}, ps \in Signatures}
    \cup {<<Callable("f", <<>>, ps, "return"), Callable(n, <<"G.">>, qs, "return")>> :
              n \in {"f", "g"}, ps \in Signatures, qs \in Signatures}

\* the model and the system instruction create_chat_agent passes (quick mode)
QuickModel == "gemini-1.5-flash"
QuickInstruction == <<"You are a helpful AI assistant for a data platform.">>

\* the generation_config a caller passes: the keys of the dict
GenerationConfig == {"temperature"}

\* message dicts handed to the constructor or to inject_messages; a dict
\* may lack the 'role' or the 'content' key
Message(r, c) == [hasRole |-> TRUE, hasContent |-> TRUE, role |-> r, content |-> c]
NoContentMessage(r) == [hasRole |-> TRUE, hasContent |-> FALSE, role |-> r, content |-> <<>>]
MessageLists ==
    { <<>>,
      <<Message("user", <<"m">>)>>,
      <<Message("user", <<"q">>), NoContentMessage("model"), Message("model", <<"r">>)>> }

\* what the endpoint may answer: the parts of candidates[0].content
Completion(ps) == [parts |-> ps]
EmptyCompletion == Completion(<<>>)
Completions ==
    { EmptyCompletion,
      Completion(<<TextPart(<<"a">>)>>),
      Completion(<<FunctionCall("echo", <<"x">>)>>),
      Completion(<<FunctionCall("echo", <<"x">>), FunctionCall("echo", <<"y">>)>>),
      Completion(<<FunctionCall("nope", <<"x">>), FunctionCall("echo", <<"y">>)>>),
      Completion(<<FunctionCall("nope", <<"x">>), FunctionCall("boom", <<"y">>),
                   FunctionCall("echo", <<"z">>)>>),
      Completion(<<FunctionCall("echo", <<"x">>), TextPart(<<"b">>)>>),
      Completion(<<ThoughtPart(<<"t">>), TextPart(<<" ">>), ThoughtPart(<<"u">>)>>) }

\* fixed initial history handed to the constructor (None or a list of Content)
SeedTurn == Turn("user", <<TextPart(<<"s">>)>>, 0)
InitialHistories == {<<>>, <<SeedTurn>>}

\* ------------------------------------------------- response inspection
\* the function_call parts of candidates[0].content.parts, in order
FunctionCallsOf(c) == SelectSeq(c.parts, LAMBDA part : part.kind = "function_call")

\* response.text: the text parts joined, None when there is no text part
TextsOf(ps) ==
    [i \in 1..Len(SelectSeq(ps, LAMBDA part : part.kind = "text")) |->
        SelectSeq(ps, LAMBDA part : part.kind = "text")[i].val]
ResponseText(c) ==
    IF SelectSeq(c.parts, LAMBDA part : part.kind = "text") = <<>>
    THEN NoneValue
    ELSE Str(Concat(TextsOf(c.parts)))

\* text_parts: the texts of the parts whose text is non-blank, in order
NonBlankTexts(c) ==
    [i \in 1..Len(SelectSeq(c.parts, LAMBDA part : HasText(part) /\ ~IsBlank(part.val))) |->
        SelectSeq(c.parts, LAMBDA part : HasText(part) /\ ~IsBlank(part.val))[i].val]

NoResponseGenerated == <<"No response generated.">>
NoResponseAfterFunction ==
    <<"Function executed successfully, but no response was generated.">>

\* what tool_call returns on a first completion without function calls
FirstTextMemory(c) ==
    IF ~ResponseText(c).isNone /\ ~IsBlank(ResponseText(c).str)
    THEN ResponseText(c)
    ELSE IF NonBlankTexts(c) # <<>>
         THEN Str(Concat(NonBlankTexts(c)))
         ELSE Str(NoResponseGenerated)

FirstTextStateless(c) == ResponseText(c)

\* what _send_function_results_* returns on a completion it treats as final
FinalText(c) ==
    IF ~ResponseText(c).isNone /\ ~IsBlank(ResponseText(c).str)
    THEN ResponseText(c)
    ELSE IF NonBlankTexts(c) # <<>>
         THEN Str(Concat(NonBlankTexts(c)))
         ELSE Str(NoResponseAfterFunction)

\* -------------------------------------------------- tool declarations
\* (variant: the annotation's own name is declared)
ParamTypeVerbatim(a) == a

\* param_type: "string" unless the annotation is int, float or bool
ParamType(a) ==
    CASE a = "int" -> "integer"
      [] a = "float" -> "number"
      [] a = "bool" -> "boolean"
      [] OTHER -> "string"

\* properties[param_name] = {"type": ..., "description": ...}, in signature order
PropertiesOf(ps) ==
    [i \in 1..Len(ps) |->
        [name |-> ps[i].name, type |-> ParamType(ps[i].annotation),
         description |-> <<"Parameter ", ps[i].name>>]]

\* (variant: every parameter is required)
RequiredAll(ps) == [i \in 1..Len(ps) |-> ps[i].name]

\* if param.default == inspect.Parameter.empty: required.append(param_name)
RequiredOf(ps) ==
    [i \in 1..Len(SelectSeq(ps, LAMBDA q : ~q.hasDefault)) |->
        SelectSeq(ps, LAMBDA q : ~q.hasDefault)[i].name]

FunctionToDeclaration(func) ==
    [name |-> func.name,
     description |-> IF func.doc = <<>> THEN <<"Function ", func.name>> ELSE func.doc,
     properties |-> PropertiesOf(func.params),
     required |-> RequiredOf(func.params)]

\* for tool in self._tools: declarations.append(...)
CreateToolDeclarations(ts) == [i \in 1..Len(ts) |-> FunctionToDeclaration(ts[i])]

\* ------------------------------------------------- session construction
\* (variant: every message dict becomes a turn)
ConvertEveryMessage(ms) ==
    [i \in 1..Len(ms) |-> Turn(ms[i].role, <<TextPart(ms[i].content)>>, 0)]

\* the valid message dicts as Content, in order; the others are skipped
ConvertMessagesToContent(ms) ==
    [i \in 1..Len(SelectSeq(ms, LAMBDA m : m.hasRole /\ m.hasContent)) |->
        Turn(SelectSeq(ms, LAMBDA m : m.hasRole /\ m.hasContent)[i].role,
             <<TextPart(SelectSeq(ms, LAMBDA m : m.hasRole /\ m.hasContent)[i].content)>>,
             0)]

\* (variant: the session is rebuilt on top of the turns it holds)
SeedOnTop(h, ih, ms) == h \o ConvertMessagesToContent(ms)

\* history = (self._initial_history or []) + converted last_n_messages
SeedHistory(h, ih, ms) == ih \o ConvertMessagesToContent(ms)

\* (variant: the key is set in self._default_config itself)
SetInPlace(d, k) == [config |-> d \cup {k}, default |-> d \cup {k}]

\* config = self._default_config.copy(); config[k] = ...: the dict handed to
\* the session, and what is left in self._default_config
CopiedThenSet(d, k) == [config |-> d \cup {k}, default |-> d]

\* ------------------------------------------------------ tool registry
NotFound == Callable("", <<>>, <<>>, "none")

\* for tool in self._tools: if tool.__name__ == function_name: ... break
RECURSIVE Resolve(_, _)
Resolve(ts, n) ==
    IF ts = <<>> THEN NotFound
    ELSE IF Head(ts).name = n THEN Head(ts) ELSE Resolve(Tail(ts), n)

NotFoundMessage(n) == <<"Error: Function ", n, " not found">>

\* (variant: the name is stored where the result belongs)
ResultNamed(n, v) == [name |-> n, value |-> <<n>>]

\* (function_name, function_result)
Result(n, v) == [name |-> n, value |-> v]

\* Part.from_function_response for every collected result, in list order
ResponseParts(rs) ==
    [i \in 1..Len(rs) |-> FunctionResponsePart(rs[i].name, rs[i].value)]

\* ---------------------------------------------------------------- state
VARIABLES
    memory,            \* self.memory
    tools,             \* self._tools
    initial_history,   \* self._initial_history
    history,           \* the turns held by self._chat_session (memory mode)
    pc,                \* where the running invocation stands
    op,                \* the method that is running: "tool_call" or "chat"
    submitted,         \* the conversation handed to the endpoint last
    function_calls,    \* the function calls of the completion being served
    function_results,  \* the results collected for them so far
    rounds,            \* endpoint submissions made by this invocation
    batches,           \* batches of function calls this invocation served
    invocations,       \* tools this invocation has invoked, with arguments
    callNo,            \* number of invocations started on this agent
    submissions,       \* number of endpoint submissions made by this agent
    outcome,           \* how the last finished invocation ended
    response,          \* the completion this invocation received last, if any
    failed,            \* the endpoint failed a submission of this invocation
    log,               \* the invocations that returned, with what they returned
    tool_declarations, \* self._tool_declarations
    last_n_messages,   \* self._last_n_messages
    default_config,    \* the dict object self._default_config refers to
    model,             \* self.model
    system_instruction, \* self._system_instruction
    active,            \* which of two agents the variables above belong to
    other,             \* the state of the second agent, as a record
    chat_messages,     \* the rows of table chat_messages, oldest first
    request,           \* the ChatRequest the /send handler is serving
    now,               \* the time, in minutes
    reports,           \* the rows of table scheduled_reports, by id
    queue,             \* the generate_single_report tasks waiting for a worker
    executions         \* the rows of table report_executions, oldest first

vars == <<memory, tools, initial_history, history, pc, op, submitted,
          function_calls, function_results, rounds, batches, invocations,
          callNo, submissions, outcome, response, failed, log,
          tool_declarations, last_n_messages, default_config, model,
          system_instruction, active, other, chat_messages, request, now,
          reports, queue, executions>>

config == <<memory, tools, initial_history, tool_declarations, model, system_instruction>>

\* what only a rebuild of the session or a step of the second agent changes
peer == <<active, other>>

\* the tables and the tasks around the agent
backend == <<chat_messages, request, now, reports, queue, executions>>

rest == <<last_n_messages, default_config, peer, backend>>

\* no request served yet, nothing stored, nothing scheduled
NoRequest == [no |-> 0, user |-> "", message |-> <<>>, stage |-> "none"]
NoBackend ==
    /\ chat_messages = <<>>
    /\ request = NoRequest
    /\ now = 0
    /\ reports = <<>>
    /\ queue = <<>>
    /\ executions = <<>>

\* the second agent where there is none
NoPeer == [memory |-> FALSE]

NoOutcome == [kind |-> "none", value |-> NoneValue, error |-> ""]
Returned(v) == [kind |-> "returned", value |-> v, error |-> ""]
Raised(e) == [kind |-> "raised", value |-> NoneValue, error |-> e]

UserTurn(p, n) == Turn("user", <<TextPart(p)>>, n)
ModelTurn(c, n) == Turn("model", c.parts, n)
ResultsTurn(rs, n) == Turn("user", ResponseParts(rs), n)

\* Agent.__init__ and, with memory, _initialize_chat_session, for an agent
\* given the tools ts, the initial history ih and the messages ms
Construct(m, ts, ih, ms) ==
    /\ model = QuickModel
    /\ system_instruction = QuickInstruction
    /\ memory = m
    /\ tools = ts
    /\ initial_history = ih
    /\ last_n_messages = ms
    /\ tool_declarations = CreateToolDeclarations(ts)
    /\ history = IF m THEN SeedHistory(<<>>, ih, ms) ELSE <<>>
    /\ default_config = IF m
                        THEN CopiedThenSet(GenerationConfig, "system_instruction").default
                        ELSE GenerationConfig
    /\ pc = "idle"
    /\ op = "none"
    /\ submitted = <<>>
    /\ function_calls = <<>>
    /\ function_results = <<>>
    /\ rounds = 0
    /\ batches = 0
    /\ invocations = <<>>
    /\ callNo = 0
    /\ submissions = 0
    /\ outcome = NoOutcome
    /\ response = <<>>
    /\ failed = FALSE
    /\ log = <<>>

Init ==
    /\ \E m \in BOOLEAN, ts \in ToolSets, ih \in InitialHistories :
           Construct(m, ts, ih, <<>>)
    /\ active = 1
    /\ NoBackend
    /\ other = NoPeer

\* ------------------------------------------------------------- helpers
\* the turns of the session tool_call and chat send to in memory mode
ChatSession == history

\* (variant: the contents of the previous call are kept)
KeptContents(prev, turn) == prev \o <<turn>>

\* conversation_contents = [user_content]
InitialContents(prev, turn) == <<turn>>

\* (variant: the completion is recorded ahead of the message it answers)
RecordCompletionFirst(h, sent, c, n) == h \o <<ModelTurn(c, n), sent>>

\* (variant: every call talks to a session created afresh)
RecordInFreshSession(h, sent, c, n) == initial_history \o <<sent, ModelTurn(c, n)>>

\* send_message records the message sent and the completion, on success only
RecordHistory(h, sent, c, n) == h \o <<sent, ModelTurn(c, n)>>

\* (variant: the stateless path looks for further function calls as well)
AlwaysLooksForMoreCalls == TRUE

\* _send_function_results_memory looks for further function calls in the
\* completion, _send_function_results_stateless does not
LooksForMoreCalls == memory

Last(s) == s[Len(s)]

StartInvocation(o) ==
    /\ pc = "idle"
    /\ submissions < MaxSubmissions
    /\ callNo' = callNo + 1
    /\ submissions' = submissions + 1
    /\ op' = o
    /\ rounds' = 1
    /\ batches' = 0
    /\ invocations' = <<>>
    /\ function_calls' = <<>>
    /\ function_results' = <<>>
    /\ outcome' = NoOutcome
    /\ response' = <<>>
    /\ failed' = FALSE
    /\ UNCHANGED log

Return(v) ==
    /\ pc' = "idle"
    /\ outcome' = Returned(v)
    /\ log' = Append(log, [call |-> callNo, op |-> op, value |-> v])
    /\ UNCHANGED <<function_calls, function_results, batches>>

Raise(e) ==
    /\ pc' = "idle"
    /\ outcome' = Raised(e)
    /\ UNCHANGED log

\* (variant: "if function_calls is not None", true of an empty list as well)
ServeCompletionAlways(c, text) ==
    /\ pc' = "execute"
    /\ function_calls' = FunctionCallsOf(c)
    /\ function_results' = <<>>
    /\ batches' = batches + 1
    /\ UNCHANGED <<outcome, log>>

\* (variant: a completion that has text is final, whatever calls it has)
ServeCompletionTextFirst(c, text) ==
    IF FunctionCallsOf(c) # <<>> /\ ResponseText(c).isNone
    THEN /\ pc' = "execute"
         /\ function_calls' = FunctionCallsOf(c)
         /\ function_results' = <<>>
         /\ batches' = batches + 1
         /\ UNCHANGED <<outcome, log>>
    ELSE Return(text)

\* if function_calls: ... execute them, else return the text
ServeCompletion(c, text) ==
    IF FunctionCallsOf(c) # <<>>
    THEN /\ pc' = "execute"
         /\ function_calls' = FunctionCallsOf(c)
         /\ function_results' = <<>>
         /\ batches' = batches + 1
         /\ UNCHANGED <<outcome, log>>
    ELSE Return(text)

\* -------------------------------------------------------------- actions
\* tool_call up to its first submission
ToolCall(p) ==
    /\ StartInvocation("tool_call")
    /\ pc' = "send_prompt"
    /\ submitted' = IF memory
                    THEN ChatSession \o <<UserTurn(p, callNo + 1)>>
                    ELSE InitialContents(submitted, UserTurn(p, callNo + 1))
    /\ UNCHANGED <<config, rest, history>>

\* the first completion arrives
PromptAnswered(c) ==
    /\ pc = "send_prompt"
    /\ history' = IF memory
                  THEN RecordHistory(history, Last(submitted), c, callNo)
                  ELSE history
    /\ ServeCompletion(c, IF memory THEN FirstTextMemory(c) ELSE FirstTextStateless(c))
    /\ response' = <<c>>
    /\ UNCHANGED <<config, rest, op, submitted, rounds, invocations, callNo, submissions,
                   failed>>

\* (variant: the batch is served from its last request to its first)
ExecuteCallLastFirst ==
    /\ pc = "execute"
    /\ Len(function_results) < Len(function_calls)
    /\ LET fc == function_calls[Len(function_calls) - Len(function_results)]
           target == Resolve(tools, fc.name)
       IN  IF target = NotFound
           THEN /\ function_results' =
                       Append(function_results, Result(fc.name, NotFoundMessage(fc.name)))
                /\ UNCHANGED <<pc, outcome, invocations, log>>
           ELSE /\ invocations' = Append(invocations, [name |-> target.name, args |-> fc.val])
                /\ IF target.does = "return"
                   THEN /\ function_results' =
                               Append(function_results, Result(fc.name, fc.val))
                        /\ UNCHANGED <<pc, outcome, log>>
                   ELSE /\ Raise("tool")
                        /\ UNCHANGED function_results
    /\ UNCHANGED <<config, rest, history, op, submitted, function_calls, rounds,
                   batches, callNo, submissions, response, failed>>

\* one iteration of "for function_call in function_calls"
ExecuteCall ==
    /\ pc = "execute"
    /\ Len(function_results) < Len(function_calls)
    /\ LET fc == function_calls[Len(function_results) + 1]
           target == Resolve(tools, fc.name)
       IN  IF target = NotFound
           THEN /\ function_results' =
                       Append(function_results, Result(fc.name, NotFoundMessage(fc.name)))
                /\ UNCHANGED <<pc, outcome, invocations, log>>
           ELSE /\ invocations' = Append(invocations, [name |-> target.name, args |-> fc.val])
                /\ IF target.does = "return"
                   THEN /\ function_results' =
                               Append(function_results, Result(fc.name, fc.val))
                        /\ UNCHANGED <<pc, outcome, log>>
                   ELSE /\ Raise("tool")
                        /\ UNCHANGED function_results
    /\ UNCHANGED <<config, rest, history, op, submitted, function_calls, rounds,
                   batches, callNo, submissions, response, failed>>

\* (variant: the completion that asked for the calls is resubmitted too)
SendResultsWithCompletion ==
    /\ pc = "execute"
    /\ Len(function_results) = Len(function_calls)
    /\ submissions < MaxSubmissions
    /\ pc' = "send_results"
    /\ rounds' = rounds + 1
    /\ submissions' = submissions + 1
    /\ submitted' = IF memory
                    THEN ChatSession \o <<ResultsTurn(function_results, callNo)>>
                    ELSE submitted \o <<ModelTurn(response[1], callNo),
                                        ResultsTurn(function_results, callNo)>>
    /\ UNCHANGED <<config, rest, history, op, function_calls, function_results,
                   batches, invocations, callNo, outcome, response, failed, log>>

\* _send_function_results_memory / _stateless up to the submission
SendResults ==
    /\ pc = "execute"
    /\ Len(function_results) = Len(function_calls)
    /\ submissions < MaxSubmissions
    /\ pc' = "send_results"
    /\ rounds' = rounds + 1
    /\ submissions' = submissions + 1
    /\ submitted' = IF memory
                    THEN ChatSession \o <<ResultsTurn(function_results, callNo)>>
                    ELSE submitted \o <<ResultsTurn(function_results, callNo)>>
    /\ UNCHANGED <<config, rest, history, op, function_calls, function_results,
                   batches, invocations, callNo, outcome, response, failed, log>>

\* the completion that follows a batch of results arrives
ResultsAnswered(c) ==
    /\ pc = "send_results"
    /\ history' = IF memory
                  THEN RecordHistory(history, Last(submitted), c, callNo)
                  ELSE history
    /\ IF LooksForMoreCalls
       THEN ServeCompletion(c, FinalText(c))
       ELSE Return(FinalText(c))
    /\ response' = <<c>>
    /\ UNCHANGED <<config, rest, op, submitted, rounds, invocations, callNo, submissions,
                   failed>>

\* chat up to its submission
Chat(p) ==
    /\ StartInvocation("chat")
    /\ pc' = "send_chat"
    /\ submitted' = IF memory
                    THEN ChatSession \o <<UserTurn(p, callNo + 1)>>
                    ELSE initial_history \o <<UserTurn(p, callNo + 1)>>
    /\ default_config' = IF memory
                         THEN default_config
                         ELSE CopiedThenSet(default_config, "system_instruction").default
    /\ UNCHANGED <<config, last_n_messages, peer, backend, history>>

\* return response.text
ChatAnswered(c) ==
    /\ pc = "send_chat"
    /\ history' = IF memory
                  THEN RecordHistory(history, Last(submitted), c, callNo)
                  ELSE history
    /\ Return(ResponseText(c))
    /\ response' = <<c>>
    /\ UNCHANGED <<config, rest, op, submitted, rounds, invocations, callNo, submissions,
                   failed>>

\* (variant: the message of a failed submission is recorded all the same)
EndpointFailsRecorded ==
    /\ pc \in {"send_prompt", "send_results", "send_chat"}
    /\ failed' = TRUE
    /\ Raise("endpoint")
    /\ history' = IF memory THEN history \o <<Last(submitted)>> ELSE history
    /\ UNCHANGED <<config, rest, op, submitted, function_calls,
                   function_results, rounds, batches, invocations, callNo,
                   submissions, response>>

\* (variant: a failed submission is made again)
EndpointFailsRetried ==
    /\ pc \in {"send_prompt", "send_results", "send_chat"}
    /\ submissions < MaxSubmissions
    /\ failed' = TRUE
    /\ submissions' = submissions + 1
    /\ rounds' = rounds + 1
    /\ UNCHANGED <<config, rest, history, pc, op, submitted, function_calls,
                   function_results, batches, invocations, callNo, outcome,
                   response, log>>

\* a submission fails: except Exception ... raise
EndpointFails ==
    /\ pc \in {"send_prompt", "send_results", "send_chat"}
    /\ failed' = TRUE
    /\ Raise("endpoint")
    /\ UNCHANGED <<config, rest, history, op, submitted, function_calls,
                   function_results, rounds, batches, invocations, callNo,
                   submissions, response>>

Next ==
    \/ \E p \in {PromptOf(callNo + 1)} : ToolCall(p)
    \/ \E c \in Completions : PromptAnswered(c)
    \/ ExecuteCall
    \/ SendResults
    \/ \E c \in Completions : ResultsAnswered(c)
    \/ \E p \in {PromptOf(callNo + 1)} : Chat(p)
    \/ \E c \in Completions : ChatAnswered(c)
    \/ EndpointFails

Spec == Init /\ [][Next]_vars

\* ------------------------------------------------ rebuilding the session
InitSeed ==
    /\ \E m \in BOOLEAN, ih \in InitialHistories, ms \in MessageLists :
           Construct(m, <<Echo, Boom>>, ih, ms)
    /\ active = 1
    /\ NoBackend
    /\ other = NoPeer

\* get_conversation_history: reads the session, changes nothing
GetHistory ==
    /\ pc = "idle"
    /\ op' = "get_conversation_history"
    /\ UNCHANGED <<config, rest, history, pc, submitted, function_calls,
                   function_results, rounds, batches, invocations, callNo,
                   submissions, outcome, response, failed, log>>

\* (variant: the session is rebuilt whatever the memory flag says)
ClearMemoryUnguarded ==
    /\ pc = "idle"
    /\ op' = "clear_memory"
    /\ history' = SeedHistory(history, initial_history, last_n_messages)
    /\ default_config' = CopiedThenSet(default_config, "system_instruction").default
    /\ UNCHANGED <<config, last_n_messages, peer, backend, pc, submitted, function_calls,
                   function_results, rounds, batches, invocations, callNo,
                   submissions, outcome, response, failed, log>>

\* clear_memory: with memory, _initialize_chat_session again
ClearMemory ==
    /\ pc = "idle"
    /\ op' = "clear_memory"
    /\ IF memory
       THEN /\ history' = SeedHistory(history, initial_history, last_n_messages)
            /\ default_config' = CopiedThenSet(default_config, "system_instruction").default
       ELSE UNCHANGED <<history, default_config>>
    /\ UNCHANGED <<config, last_n_messages, peer, backend, pc, submitted, function_calls,
                   function_results, rounds, batches, invocations, callNo,
                   submissions, outcome, response, failed, log>>

\* inject_messages: with memory, store the messages and rebuild the session
InjectMessages(ms) ==
    /\ pc = "idle"
    /\ op' = "inject_messages"
    /\ IF memory
       THEN /\ last_n_messages' = ms
            /\ history' = SeedHistory(history, initial_history, ms)
            /\ default_config' = CopiedThenSet(default_config, "system_instruction").default
       ELSE UNCHANGED <<last_n_messages, history, default_config>>
    /\ UNCHANGED <<config, peer, backend, pc, submitted, function_calls,
                   function_results, rounds, batches, invocations, callNo,
                   submissions, outcome, response, failed, log>>

NextSeed ==
    \/ Next /\ submissions' <= MaxSeedSubmissions
    \/ ClearMemory
    \/ \E ms \in MessageLists : InjectMessages(ms)
    \/ GetHistory

SpecSeed == InitSeed /\ [][NextSeed]_vars

\* ------------------------------------------------------------ two agents
\* the state of the agent the variables belong to, as a record
Self ==
    [model |-> model,
     system_instruction |-> system_instruction,
     memory |-> memory,
     tools |-> tools,
     initial_history |-> initial_history,
     tool_declarations |-> tool_declarations,
     last_n_messages |-> last_n_messages,
     history |-> history,
     pc |-> pc,
     op |-> op,
     submitted |-> submitted,
     function_calls |-> function_calls,
     function_results |-> function_results,
     rounds |-> rounds,
     batches |-> batches,
     invocations |-> invocations,
     callNo |-> callNo,
     submissions |-> submissions,
     outcome |-> outcome,
     response |-> response,
     failed |-> failed,
     log |-> log]

\* Agent.__init__ as a record: the state of a newly constructed agent
Fresh(m, ts, ih, ms) ==
    [model |-> QuickModel, system_instruction |-> QuickInstruction,
     memory |-> m, tools |-> ts, initial_history |-> ih,
     tool_declarations |-> CreateToolDeclarations(ts), last_n_messages |-> ms,
     history |-> IF m THEN SeedHistory(<<>>, ih, ms) ELSE <<>>,
     pc |-> "idle", op |-> "none", submitted |-> <<>>, function_calls |-> <<>>,
     function_results |-> <<>>, rounds |-> 0, batches |-> 0, invocations |-> <<>>,
     callNo |-> 0, submissions |-> 0, outcome |-> NoOutcome, response |-> <<>>,
     failed |-> FALSE, log |-> <<>>]

\* two agents constructed with the same tools and the same generation_config
\* dict, one after the other
InitTwo ==
    /\ \E m \in BOOLEAN, ih \in InitialHistories : Construct(m, <<Echo, Boom>>, ih, <<>>)
    /\ active = 1
    /\ NoBackend
    /\ \E m \in BOOLEAN : other = Fresh(m, <<Echo, Boom>>, <<>>, <<>>)

\* the scheduler turns to the other agent: the variables now hold its state
Switch ==
    /\ model' = other.model
    /\ system_instruction' = other.system_instruction
    /\ memory' = other.memory
    /\ tools' = other.tools
    /\ initial_history' = other.initial_history
    /\ tool_declarations' = other.tool_declarations
    /\ last_n_messages' = other.last_n_messages
    /\ history' = other.history
    /\ pc' = other.pc
    /\ op' = other.op
    /\ submitted' = other.submitted
    /\ function_calls' = other.function_calls
    /\ function_results' = other.function_results
    /\ rounds' = other.rounds
    /\ batches' = other.batches
    /\ invocations' = other.invocations
    /\ callNo' = other.callNo
    /\ submissions' = other.submissions
    /\ outcome' = other.outcome
    /\ response' = other.response
    /\ failed' = other.failed
    /\ log' = other.log
    /\ other' = Self
    /\ active' = 3 - active
    /\ UNCHANGED <<default_config, backend>>

NextTwo ==
    \/ Next /\ submissions' + other.submissions <= MaxTwoSubmissions
    \/ Switch

SpecTwo == InitTwo /\ [][NextTwo]_vars

\* ------------------------------------------- two callers of one agent
\* the second caller numbers its invocations from here, so that the
\* invocations of the two callers have different numbers
CallerOffset == 2 * MaxSharedSubmissions

\* what one caller's activation of tool_call holds: its locals and position
Thread ==
    [pc |-> pc,
     op |-> op,
     submitted |-> submitted,
     function_calls |-> function_calls,
     function_results |-> function_results,
     rounds |-> rounds,
     batches |-> batches,
     invocations |-> invocations,
     callNo |-> callNo,
     submissions |-> submissions,
     outcome |-> outcome,
     response |-> response,
     failed |-> failed,
     preempted |-> FALSE]

\* a memory-mode agent and a second caller that has not called yet
InitShared ==
    /\ Construct(TRUE, <<Echo, Boom>>, <<>>, <<>>)
    /\ active = 1
    /\ NoBackend
    /\ other = [pc |-> "idle", op |-> "none", submitted |-> <<>>,
                function_calls |-> <<>>, function_results |-> <<>>, rounds |-> 0,
                batches |-> 0, invocations |-> <<>>, callNo |-> CallerOffset,
                submissions |-> 0, outcome |-> NoOutcome, response |-> <<>>,
                failed |-> FALSE, preempted |-> FALSE]

\* the other caller runs: the agent and its session stay, the locals are
\* exchanged; preempted records that a caller was left inside a call
Preempt ==
    /\ pc' = other.pc
    /\ op' = other.op
    /\ submitted' = other.submitted
    /\ function_calls' = other.function_calls
    /\ function_results' = other.function_results
    /\ rounds' = other.rounds
    /\ batches' = other.batches
    /\ invocations' = other.invocations
    /\ callNo' = other.callNo
    /\ submissions' = other.submissions
    /\ outcome' = other.outcome
    /\ response' = other.response
    /\ failed' = other.failed
    /\ other' = [Thread EXCEPT !.preempted = other.preempted \/ pc # "idle"]
    /\ active' = 3 - active
    /\ UNCHANGED <<config, history, log, last_n_messages, default_config, backend>>

\* what the endpoint answers the two callers: text, one call, two calls
SharedCompletions ==
    { Completion(<<TextPart(<<"a">>)>>),
      Completion(<<FunctionCall("echo", <<"x">>)>>),
      Completion(<<FunctionCall("boom", <<"y">>)>>),
      Completion(<<FunctionCall("echo", <<"x">>), FunctionCall("echo", <<"y">>)>>) }

NextShared ==
    \/ /\ \/ \E p \in {PromptOf(callNo + 1)} : ToolCall(p)
          \/ \E c \in SharedCompletions : PromptAnswered(c)
          \/ ExecuteCall
          \/ SendResults
          \/ \E c \in SharedCompletions : ResultsAnswered(c)
          \/ EndpointFails
       /\ submissions' + other.submissions <= MaxSharedSubmissions
    \/ Preempt

SpecShared == InitShared /\ [][NextShared]_vars

\* ------------------------------------------------- the /send handler
\* db_get_chat_history(db, current_user.id, limit=10)
HistoryLimit == 10

Min(a, b) == IF a < b THEN a ELSE b

\* a row of chat_messages; the rows are kept in timestamp order
Row(u, sender, content) == [user_id |-> u, sender |-> sender, content |-> content]

\* what the table may hold when a request arrives: nothing, or ten earlier
\* messages of the user, or those and a message of somebody else
OldRows ==
    [i \in 1..HistoryLimit |->
        Row("u1", IF i % 2 = 1 THEN "user" ELSE "quick_agent", <<"old", ToString(i)>>)]
StoredRows == {<<>>, OldRows, OldRows \o <<Row("u2", "user", <<"theirs">>)>>}

\* request.message: a message is a sequence of words
RequestMessages == {<<"hi">>, <<"show", "sales">>}

\* the words that make the handler wrap the message into an instruction
Keywords == {"trends", "data", "dataset", "query", "show", "analyze", "find"}
HasKeyword(msg) == \E i \in 1..Len(msg) : msg[i] \in Keywords
EnhancedPrompt(msg) ==
    IF HasKeyword(msg)
    THEN <<"User query: ">> \o msg \o <<"Please analyze this request and use your available tools">>
    ELSE msg

\* (variant: the rows come oldest first)
GetChatHistoryOldestFirst(rows, u, limit) ==
    LET mine == SelectSeq(rows, LAMBDA r : r.user_id = u)
    IN  [i \in 1..Min(limit, Len(mine)) |-> mine[i]]

\* get_chat_history: the user's rows by timestamp, newest first, at most limit
GetChatHistory(rows, u, limit) ==
    LET mine == SelectSeq(rows, LAMBDA r : r.user_id = u)
    IN  [i \in 1..Min(limit, Len(mine)) |-> mine[Len(mine) - i + 1]]

Reversed(q) == [i \in 1..Len(q) |-> q[Len(q) - i + 1]]

\* chat_history: the rows oldest first as message dicts, role "user" for the
\* user's rows and "model" for all others
ChatHistory(recent) ==
    [i \in 1..Len(recent) |->
        Message(IF Reversed(recent)[i].sender = "user" THEN "user" ELSE "model",
                Reversed(recent)[i].content)]

InitSend ==
    /\ Construct(TRUE, <<Echo, Boom>>, <<>>, <<>>)
    /\ active = 1
    /\ other = NoPeer
    /\ chat_messages \in StoredRows
    /\ request = NoRequest
    /\ now = 0
    /\ reports = <<>>
    /\ queue = <<>>
    /\ executions = <<>>

\* the handler up to create_chat_message for the user's message
ReceiveSend(msg) ==
    /\ request.stage \in {"none", "done"}
    /\ request.no < MaxRequests
    /\ chat_messages' = Append(chat_messages, Row("u1", "user", msg))
    /\ request' = [no |-> request.no + 1, user |-> "u1", message |-> msg,
                   stage |-> "stored"]
    /\ UNCHANGED <<config, last_n_messages, default_config, peer, now, reports, queue,
                   executions, history, pc, op, submitted, function_calls,
                   function_results, rounds, batches, invocations, callNo,
                   submissions, outcome, response, failed, log>>

\* load the recent rows, create the agent of this request (the same user
\* and mode, so the same configuration) and inject the rows into it
LoadAndInject ==
    /\ request.stage = "stored"
    /\ request' = [request EXCEPT !.stage = "ready"]
    /\ LET chat_history ==
               ChatHistory(GetChatHistory(chat_messages, request.user, HistoryLimit))
       IN  /\ last_n_messages' = chat_history
           /\ history' = SeedHistory(<<>>, initial_history, chat_history)
    /\ default_config' = CopiedThenSet(default_config, "system_instruction").default
    /\ pc' = "idle"
    /\ op' = "inject_messages"
    /\ submitted' = <<>>
    /\ function_calls' = <<>>
    /\ function_results' = <<>>
    /\ rounds' = 0
    /\ batches' = 0
    /\ invocations' = <<>>
    /\ callNo' = 0
    /\ submissions' = 0
    /\ outcome' = NoOutcome
    /\ response' = <<>>
    /\ failed' = FALSE
    /\ log' = <<>>
    /\ UNCHANGED <<config, peer, chat_messages, now, reports, queue, executions>>

\* response_text = agent.tool_call(enhanced_prompt)
CallAgent ==
    /\ request.stage = "ready"
    /\ op = "inject_messages"
    /\ ToolCall(EnhancedPrompt(request.message))

\* the agent's answer is stored and returned
SaveResponse ==
    /\ request.stage = "ready"
    /\ op = "tool_call" /\ pc = "idle" /\ outcome.kind = "returned"
    /\ chat_messages' = Append(chat_messages,
                               Row(request.user, "quick_agent", outcome.value.str))
    /\ request' = [request EXCEPT !.stage = "done"]
    /\ UNCHANGED <<config, last_n_messages, default_config, peer, now, reports, queue,
                   executions, history, pc, op, submitted, function_calls,
                   function_results, rounds, batches, invocations, callNo,
                   submissions, outcome, response, failed, log>>

\* except Exception: HTTP 500, nothing more is stored
FailSend ==
    /\ request.stage = "ready"
    /\ op = "tool_call" /\ pc = "idle" /\ outcome.kind = "raised"
    /\ request' = [request EXCEPT !.stage = "done"]
    /\ UNCHANGED <<config, last_n_messages, default_config, peer, chat_messages, now,
                   reports, queue, executions, history, pc, op, submitted,
                   function_calls, function_results, rounds, batches, invocations,
                   callNo, submissions, outcome, response, failed, log>>

\* what the endpoint answers the handler's agent: text, or one call
SendCompletions ==
    { Completion(<<TextPart(<<"a">>)>>),
      Completion(<<FunctionCall("echo", <<"x">>)>>),
      Completion(<<FunctionCall("boom", <<"y">>)>>) }

NextSend ==
    \/ \E msg \in RequestMessages : ReceiveSend(msg)
    \/ LoadAndInject
    \/ CallAgent
    \/ /\ request.stage = "ready"
       /\ \/ \E c \in SendCompletions : PromptAnswered(c)
          \/ ExecuteCall
          \/ SendResults
          \/ \E c \in SendCompletions : ResultsAnswered(c)
          \/ EndpointFails
    \/ SaveResponse
    \/ FailSend

SpecSend == InitSend /\ [][NextSend]_vars

\* ------------------------------------------------ scheduled reports
\* timedelta(days=1), in minutes
DayMinutes == 1440

\* the public methods class Agent defines; generate_report calls agent.run
AgentMethods ==
    {"tool_call", "chat", "get_conversation_history", "clear_memory", "inject_messages"}
AgentHasRun == "run" \in AgentMethods

\* a row of scheduled_reports
Report(e, n) == [enabled |-> e, next_run |-> n]
ReportIds == <<"r1", "r2", "r3">>

\* the reports on file: r1 enabled and due early, r2 enabled or not, r3 not
\* due before tomorrow
ReportTables ==
    { [r \in {"r1", "r2", "r3"} |->
          CASE r = "r1" -> Report(TRUE, n)
            [] r = "r2" -> Report(e, 2)
            [] OTHER -> Report(TRUE, DayMinutes)] : n \in {1, 2}, e \in BOOLEAN }

InitReports ==
    /\ Construct(FALSE, <<Echo, Boom>>, <<>>, <<>>)
    /\ active = 1
    /\ other = NoPeer
    /\ chat_messages = <<>>
    /\ request = NoRequest
    /\ now = 0
    /\ reports \in ReportTables
    /\ queue = <<>>
    /\ executions = <<>>

\* get_reports_due_for_execution at time t
DueAt(t) == SelectSeq(ReportIds, LAMBDA r : reports[r].enabled /\ reports[r].next_run <= t)

\* a task of report r is waiting, or an execution of r has not ended
InProgress(r) ==
    \/ \E i \in 1..Len(queue) : queue[i] = r
    \/ \E i \in 1..Len(executions) :
          executions[i].report_id = r /\ executions[i].status = "running"

\* (variant: a report that is waiting or running is not queued again)
TickGuarded ==
    /\ now < MaxTicks
    /\ now' = now + 1
    /\ queue' = queue \o SelectSeq(DueAt(now + 1), LAMBDA r : ~InProgress(r))
    /\ UNCHANGED <<config, last_n_messages, default_config, peer, chat_messages,
                   request, reports, executions, history, pc, op, submitted,
                   function_calls, function_results, rounds, batches, invocations,
                   callNo, submissions, outcome, response, failed, log>>

\* a minute passes and check_and_run_scheduled_reports runs: one
\* generate_single_report task is queued for every report that is due
Tick ==
    /\ now < MaxTicks
    /\ now' = now + 1
    /\ queue' = queue \o DueAt(now + 1)
    /\ UNCHANGED <<config, last_n_messages, default_config, peer, chat_messages,
                   request, reports, executions, history, pc, op, submitted,
                   function_calls, function_results, rounds, batches, invocations,
                   callNo, submissions, outcome, response, failed, log>>

\* a worker takes a task: generate_report up to create_report_execution,
\* or its return with "skipped" when the report is not due
StartReport ==
    /\ queue # <<>>
    /\ queue' = Tail(queue)
    /\ LET r == Head(queue)
       IN  IF reports[r].enabled /\ reports[r].next_run <= now
           THEN executions' = Append(executions,
                                     [id |-> Len(executions) + 1, report_id |-> r,
                                      due |-> reports[r].next_run, status |-> "running",
                                      returned |-> FALSE])
           ELSE UNCHANGED executions
    /\ UNCHANGED <<config, last_n_messages, default_config, peer, chat_messages,
                   request, now, reports, history, pc, op, submitted,
                   function_calls, function_results, rounds, batches, invocations,
                   callNo, submissions, outcome, response, failed, log>>

\* the rest of generate_report for execution i.  agent.run(prompt) raises
\* unless Agent has a method run; dbUp and handlerDbUp say whether the
\* database answers in the body and in the except clause
FinishReport(i, dbUp, handlerDbUp) ==
    /\ i \in 1..Len(executions)
    /\ ~executions[i].returned
    /\ IF AgentHasRun /\ dbUp
       THEN /\ executions' = [executions EXCEPT ![i].status = "completed",
                                                ![i].returned = TRUE]
            /\ reports' = [reports EXCEPT ![executions[i].report_id].next_run =
                                              now + DayMinutes]
       ELSE /\ executions' = [executions EXCEPT
                                 ![i].status = IF handlerDbUp THEN "failed" ELSE @,
                                 ![i].returned = TRUE]
            /\ UNCHANGED reports
    /\ UNCHANGED <<config, last_n_messages, default_config, peer, chat_messages,
                   request, now, queue, history, pc, op, submitted,
                   function_calls, function_results, rounds, batches, invocations,
                   callNo, submissions, outcome, response, failed, log>>

NextReports ==
    \/ Tick
    \/ StartReport
    \/ \E i \in 1..Len(executions), dbUp \in BOOLEAN, handlerDbUp \in BOOLEAN :
          FinishReport(i, dbUp, handlerDbUp)

SpecReports == InitReports /\ [][NextReports]_vars

\* ------------------------------------------- the declaration builder
\* an agent under construction, self._tools assigned (gemini.py line 47)
InitDecl ==
    /\ model = QuickModel
    /\ system_instruction = QuickInstruction
    /\ memory \in BOOLEAN
    /\ tools \in DeclToolSets
    /\ initial_history = <<>>
    /\ last_n_messages = <<>>
    /\ tool_declarations = <<>>
    /\ history = <<>>
    /\ default_config = GenerationConfig
    /\ pc = "new"
    /\ op = "none"
    /\ submitted = <<>>
    /\ function_calls = <<>>
    /\ function_results = <<>>
    /\ rounds = 0
    /\ batches = 0
    /\ invocations = <<>>
    /\ callNo = 0
    /\ submissions = 0
    /\ outcome = NoOutcome
    /\ response = <<>>
    /\ failed = FALSE
    /\ log = <<>>
    /\ active = 1
    /\ NoBackend
    /\ other = NoPeer

\* self._tool_declarations = self._create_tool_declarations()
CreateDeclarations ==
    /\ pc = "new"
    /\ pc' = "idle"
    /\ tool_declarations' = CreateToolDeclarations(tools)
    /\ UNCHANGED <<memory, tools, initial_history, model, system_instruction, rest,
                   history, op, submitted, function_calls, function_results, rounds,
                   batches, invocations, callNo, submissions, outcome, response,
                   failed, log>>

NextDecl == CreateDeclarations

SpecDecl == InitDecl /\ [][NextDecl]_vars

TypeOK ==
    /\ pc \in {"new", "idle", "send_prompt", "send_results", "send_chat", "execute"}
    /\ rounds \in 0..MaxSubmissions
    /\ callNo \in 0..MaxSubmissions
    /\ submissions \in 0..MaxSubmissions

\* ---------------------------------------------------------------- claims
\* C1: every invocation of tool_call stops after a bounded number of
\* round-trips.  Stated against the exploration bound: whatever number of
\* submissions is explored, an invocation ends before using all of them.
C1_BoundedRoundTrips == op = "tool_call" => rounds < MaxSubmissions

\* C2: a tool that raises does not make tool_call fail; the error is fed
\* back as a result and the batch is resubmitted.
C2_ToolErrorDoesNotAbort == ~(outcome.kind = "raised" /\ outcome.error = "tool")

\* the step that ends the execution of a batch, by resubmission or otherwise
BatchEnds == pc = "execute" /\ pc' # "execute"

Unregistered(i) == Resolve(tools, function_calls[i].name) = NotFound

\* the result the claims expect for request i: what the tool returns for its
\* arguments, the not-found text for an unregistered name
ExpectedResult(i) ==
    IF Unregistered(i)
    THEN FunctionResponsePart(function_calls[i].name,
                              NotFoundMessage(function_calls[i].name))
    ELSE FunctionResponsePart(function_calls[i].name, function_calls[i].val)

\* C3: a batch with a request for an unregistered name is still resubmitted,
\* and carries the not-found text as the result of that request.
C3_NotFoundIsFedBack ==
    [][(BatchEnds /\ \E i \in 1..Len(function_calls) : Unregistered(i))
        => /\ pc' = "send_results"
           /\ \A i \in 1..Len(function_calls) :
                 Unregistered(i) => Last(submitted').parts[i] = ExpectedResult(i)]_vars

\* C4: for k >= 2 requests all k are executed and the resubmitted results
\* are in request order, the i-th carrying the i-th name and value.
C4_AllExecutedInOrder ==
    [][(BatchEnds /\ Len(function_calls) >= 2)
        => /\ Len(function_results) = Len(function_calls)
           /\ Last(submitted').parts =
                 [i \in 1..Len(function_calls) |-> ExpectedResult(i)]]_vars

\* C5: a batch of k requests ends in exactly one resubmission, whose single
\* new turn carries exactly k results.
C5_OneBatchedResubmission ==
    [][BatchEnds
        => /\ pc' = "send_results"
           /\ submissions' = submissions + 1
           /\ Len(submitted') = (IF memory THEN Len(history) ELSE Len(submitted)) + 1
           /\ Len(Last(submitted').parts) = Len(function_calls)]_vars

\* C6: a stateless tool_call makes at most two submissions and serves at most
\* one batch; the completion of the second submission ends the call with a
\* text result, whatever function calls it contains.
C6_StatelessTwoSubmissions ==
    (~memory /\ op = "tool_call")
        => /\ rounds <= 2
           /\ batches <= 1
           /\ Len(invocations) <= Len(function_calls)
           /\ (rounds = 2 => pc \in {"send_results", "idle"})
           /\ (rounds = 2 /\ pc = "idle" /\ ~failed
                  => outcome.kind = "returned" /\ ~outcome.value.isNone)

C6_Witness ==
    /\ ~memory /\ op = "tool_call" /\ rounds = 2 /\ pc = "idle" /\ ~failed
    /\ Len(invocations) >= 1
    /\ response # <<>> /\ FunctionCallsOf(response[1]) # <<>>
    /\ outcome.kind = "returned"

\* C7: in stateless mode the conversation handed to the endpoint holds turns
\* of the running call only (after the fixed initial history, for chat);
\* no turn of another call is in it.
C7_StatelessNoLeak ==
    (~memory /\ callNo > 0)
        => /\ \A i \in 1..Len(submitted) :
                 \/ submitted[i].call = callNo
                 \/ /\ op = "chat"
                    /\ i <= Len(initial_history)
                    /\ submitted[i] = initial_history[i]
           /\ \E i \in 1..Len(submitted) :
                 /\ submitted[i] = UserTurn(PromptOf(callNo), callNo)
                 /\ \A j \in 1..Len(submitted) :
                       j > i => submitted[j] = ResultsTurn(function_results, callNo)

C7_Witness ==
    /\ ~memory /\ callNo >= 2 /\ op = "tool_call" /\ pc = "send_results"
    /\ Len(submitted) = 2
    /\ \E k \in 1..Len(log) : log[k].op = "tool_call"

\* get_conversation_history: role and the text of the first part of a turn
FirstPartText(ps) ==
    IF ps = <<>> THEN Str(<<>>)
    ELSE IF HasText(ps[1]) THEN Str(ps[1].val) ELSE NoneValue
GetConversationHistory ==
    IF ~memory THEN <<>>
    ELSE [i \in 1..Len(history) |->
            [role |-> history[i].role, content |-> FirstPartText(history[i].parts)]]

\* turn j of the history is the final answer of the logged invocation e
IsAnswerOf(j, e) ==
    /\ history[j].call = e.call
    /\ history[j].role = "model"
    /\ FunctionCallsOf(Completion(history[j].parts)) = <<>>
    /\ e.value \in {FirstTextMemory(Completion(history[j].parts)),
                    FinalText(Completion(history[j].parts))}

\* C8: in memory mode the conversation state holds, for every tool_call that
\* returned, its prompt and its final answer, the turns of one call between
\* the two, and the calls in chronological order.
C8_MemoryKeepsAllCalls ==
    memory
        => /\ \A a \in 1..(Len(history) - 1) : history[a].call <= history[a + 1].call
           /\ \A k \in 1..Len(log) :
                 log[k].op = "tool_call"
                     => \E i \in 1..Len(history) :
                           /\ history[i] = UserTurn(PromptOf(log[k].call), log[k].call)
                           /\ GetConversationHistory[i] =
                                 [role |-> "user", content |-> Str(PromptOf(log[k].call))]
                           /\ \A m \in 1..(i - 1) : history[m].call # log[k].call
                           /\ \E j \in (i + 1)..Len(history) :
                                 /\ IsAnswerOf(j, log[k])
                                 /\ \A m \in (j + 1)..Len(history) :
                                       history[m].call # log[k].call

C8_Witness ==
    /\ memory /\ pc = "idle" /\ Len(log) = 2
    /\ log[1].op = "tool_call" /\ log[2].op = "tool_call"
    /\ \E m \in 1..Len(history) :
          history[m].parts # <<>> /\ history[m].parts[1].kind = "function_response"

\* C9: on a completion with neither text nor function calls tool_call
\* returns the one fixed fallback string, in both modes and on every round.
C9_EmptyYieldsFallback ==
    (op = "tool_call" /\ pc = "idle" /\ response = <<EmptyCompletion>>)
        => outcome = Returned(Str(NoResponseGenerated))

\* C10: a failed submission ends the invocation with the error: it makes no
\* further submission and executes no further tool.
C10_NoRetryAfterEndpointError ==
    [][failed' => /\ pc' = "idle"
                  /\ outcome' = Raised("endpoint")
                  /\ submissions' = submissions
                  /\ invocations' = invocations]_vars

C10_Witness ==
    /\ failed /\ pc = "idle" /\ op = "tool_call"
    /\ rounds = 2 /\ Len(invocations) >= 1

\* C11: in memory mode a failed submission leaves the conversation state as
\* it was before that submission: neither the message sent nor a model turn
\* is appended.
C11_FailedSubmissionKeepsState ==
    [][(memory /\ failed') => history' = history]_vars

C11_Witness ==
    /\ memory /\ failed /\ pc = "idle" /\ op = "tool_call" /\ rounds = 2
    /\ \E i \in 1..Len(history) : history[i].call = callNo

\* C12: in memory mode a tool_call that ends in failure leaves no turn of
\* its own behind: the conversation state is what it was when the
\* invocation began.
C12_FailedCallLeavesNoTurns ==
    (memory /\ op = "tool_call" /\ pc = "idle" /\ outcome.kind = "raised")
        => \A i \in 1..Len(history) : history[i].call # callNo

\* the step in which the completion of a submission of tool_call arrives
CompletionArrives ==
    /\ op = "tool_call"
    /\ pc \in {"send_prompt", "send_results"}
    /\ pc' # pc
    /\ ~failed'
    /\ response' # <<>>

\* a completion without function calls whose response.text is non-blank
IsPlainText(c) ==
    /\ FunctionCallsOf(c) = <<>>
    /\ ~ResponseText(c).isNone
    /\ ~IsBlank(ResponseText(c).str)

\* C13: with no tools and a first completion that is plain text, tool_call
\* returns that text after one submission and no tool invocation.
C13_PlainAnswerInOneRound ==
    [][(CompletionArrives /\ pc = "send_prompt" /\ tools = <<>>
            /\ IsPlainText(response'[1]))
        => /\ pc' = "idle"
           /\ outcome' = Returned(ResponseText(response'[1]))
           /\ rounds' = 1
           /\ submissions' = submissions
           /\ invocations' = <<>>]_vars

C13_Witness ==
    /\ tools = <<>> /\ op = "tool_call" /\ pc = "idle" /\ rounds = 1
    /\ response = <<Completion(<<TextPart(<<"a">>)>>)>>
    /\ outcome = Returned(Str(<<"a">>))

\* C14: one call to a registered tool, then plain text T: the tool has been
\* invoked once with the requested arguments, what it returned is the
\* result that was resubmitted, and tool_call returns T after two
\* submissions.
C14_OneCallThenText ==
    [][(CompletionArrives /\ pc = "send_results" /\ rounds = 2
            /\ Len(function_calls) = 1 /\ ~Unregistered(1)
            /\ IsPlainText(response'[1]))
        => /\ invocations = <<[name |-> function_calls[1].name,
                               args |-> function_calls[1].val]>>
           /\ Last(submitted).parts =
                 <<FunctionResponsePart(function_calls[1].name, function_calls[1].val)>>
           /\ pc' = "idle"
           /\ outcome' = Returned(ResponseText(response'[1]))
           /\ rounds' = 2
           /\ invocations' = invocations]_vars

C14_Witness ==
    /\ op = "tool_call" /\ pc = "idle" /\ rounds = 2
    /\ function_calls = <<FunctionCall("echo", <<"x">>)>>
    /\ invocations = <<[name |-> "echo", args |-> <<"x">>]>>
    /\ outcome = Returned(Str(<<"a">>))

C18_FragmentsJoined ==
    [][(CompletionArrives
            /\ FunctionCallsOf(response'[1]) = <<>>
            /\ (ResponseText(response'[1]).isNone \/ IsBlank(ResponseText(response'[1]).str))
            /\ NonBlankTexts(response'[1]) # <<>>)
        => outcome' = Returned(Str(Concat(NonBlankTexts(response'[1]))))]_vars

\* C19: in stateless mode the first submission of a call is the fixed
\* initial history followed by the prompt, for tool_call and for chat.
C19_StatelessStartsFromInitialHistory ==
    (~memory /\ rounds = 1 /\ pc \in {"send_prompt", "send_chat"})
        => submitted = initial_history \o <<UserTurn(PromptOf(callNo), callNo)>>

\* position of the parameter named n in the signature ps (0 if there is none)
PositionIn(ps, n) ==
    IF \E k \in 1..Len(ps) : ps[k].name = n
    THEN CHOOSE k \in 1..Len(ps) : ps[k].name = n
    ELSE 0

\* C15: declaration building yields one declaration per callable, in the
\* order given, and the required list of each holds exactly the parameters
\* of its callable that have no default, in signature order.
C15_OneDeclarationPerCallable ==
    pc # "new" =>
        /\ Len(tool_declarations) = Len(tools)
        /\ \A i \in 1..Len(tools) :
              LET ps == tools[i].params
                  req == tool_declarations[i].required
              IN  /\ tool_declarations[i].name = tools[i].name
                  /\ \A k \in 1..Len(ps) :
                        ~ps[k].hasDefault <=> \E j \in 1..Len(req) : req[j] = ps[k].name
                  /\ \A j \in 1..Len(req) : PositionIn(ps, req[j]) > 0
                  /\ \A j \in 1..Len(req) : \A l \in 1..Len(req) :
                        j < l => PositionIn(ps, req[j]) < PositionIn(ps, req[l])

C15_Witness ==
    /\ pc = "idle"
    /\ Len(tools) = 2
    /\ tools[1].name = tools[2].name
    /\ tools[1].params = <<Param("b", "bool", TRUE), Param("a", "list", FALSE)>>
    /\ tools[2].params = <<Param("a", "empty", FALSE), Param("b", "int", FALSE)>>
    /\ tool_declarations[1].required = <<"a">>
    /\ tool_declarations[2].required = <<"a", "b">>

\* the well-formed messages of ms as turns, in order
RECURSIVE AsTurns(_)
AsTurns(ms) ==
    IF ms = <<>> THEN <<>>
    ELSE (IF Head(ms).hasRole /\ Head(ms).hasContent
          THEN <<Turn(Head(ms).role, <<TextPart(Head(ms).content)>>, 0)>>
          ELSE <<>>) \o AsTurns(Tail(ms))

\* C20: in memory mode every clear_memory leaves exactly the seed, the
\* initial history followed by the messages injected last, whatever calls
\* came before; a clear_memory that follows a clear_memory changes nothing.
C20_ClearRestoresSeed ==
    [][(memory /\ op' = "clear_memory")
        => /\ history' = initial_history \o AsTurns(last_n_messages)
           /\ last_n_messages' = last_n_messages
           /\ op = "clear_memory" => history' = history]_vars

C20_Witness ==
    /\ memory /\ op = "clear_memory" /\ pc = "idle"
    /\ log # <<>>
    /\ initial_history = <<SeedTurn>>
    /\ Len(last_n_messages) = 3
    /\ history = <<SeedTurn, Turn("user", <<TextPart(<<"q">>)>>, 0),
                   Turn("model", <<TextPart(<<"r">>)>>, 0)>>

\* C16: two agents share no mutable state.  A step of the running agent is
\* a step of the agent alone and changes neither the state of the other
\* agent (its conversation, tools and fields) nor the generation_config both
\* were given; a change of agent exchanges the two states intact.
C16_InstancesShareNothing ==
    [][IF active' = active
       THEN /\ Next
            /\ other' = other
            /\ default_config' = default_config
       ELSE /\ other' = Self
            /\ Self' = other
            /\ default_config' = default_config]_vars

C16_Witness ==
    /\ active = 2
    /\ other.pc = "execute" /\ other.callNo = 1 /\ other.memory
    /\ op = "chat" /\ pc = "idle" /\ outcome.kind = "returned" /\ ~memory
    /\ Len(other.history) = 2

\* C21: in memory mode inject_messages(m) leaves the initial history
\* followed by the well-formed messages of m, in order: the turns of earlier
\* calls and the messages of earlier injections are gone, and a malformed
\* message is skipped without an error.
C21_InjectReplacesState ==
    [][\A ms \in MessageLists :
          (memory /\ InjectMessages(ms))
              => /\ history' = initial_history \o AsTurns(ms)
                 /\ last_n_messages' = ms
                 /\ pc' = "idle"
                 /\ outcome' = outcome]_vars

C21_Witness ==
    /\ memory /\ op = "inject_messages" /\ pc = "idle"
    /\ log # <<>>
    /\ initial_history = <<SeedTurn>>
    /\ last_n_messages =
          <<Message("user", <<"q">>), NoContentMessage("model"), Message("model", <<"r">>)>>
    /\ history = <<SeedTurn, Turn("user", <<TextPart(<<"q">>)>>, 0),
                   Turn("model", <<TextPart(<<"r">>)>>, 0)>>
    /\ outcome.kind = "returned"

\* everything of the agent but its configuration, the injected messages,
\* the session and the name of the method that ran last
CallState ==
    <<submitted, function_calls, function_results, rounds, batches, invocations,
      callNo, submissions, outcome, response, failed, log, pc>>

\* C22: no step of tool_call, chat, get_conversation_history, clear_memory
\* or inject_messages changes the model, the default generation options,
\* the system instruction, the memory flag, the tools or the declarations;
\* without memory, clear_memory and inject_messages change nothing.
C22_ConfigurationIsFrozen ==
    [][/\ model' = model
       /\ default_config' = default_config
       /\ system_instruction' = system_instruction
       /\ memory' = memory
       /\ tools' = tools
       /\ tool_declarations' = tool_declarations
       /\ (~memory /\ (ClearMemory \/ \E ms \in MessageLists : InjectMessages(ms)))
             => /\ history' = history
                /\ last_n_messages' = last_n_messages
                /\ CallState' = CallState]_vars

C22_Witness ==
    /\ ~memory /\ op = "clear_memory" /\ pc = "idle"
    /\ initial_history = <<SeedTurn>>
    /\ last_n_messages # <<>>
    /\ history = <<>>
    /\ log # <<>>
    /\ tool_declarations = CreateToolDeclarations(<<Echo, Boom>>)

\* C23: the name of every declaration matches exactly one callable of the
\* registered tools.
C23_NamesAreUnambiguous ==
    pc # "new" =>
        \A i \in 1..Len(tool_declarations) :
            Cardinality({j \in 1..Len(tools) : tools[j].name = tool_declarations[i].name}) = 1

\* C24: every declared parameter type is string, integer, number or
\* boolean: int, float, bool and str are declared as integer, number,
\* boolean and string, no annotation and any other annotation as string.
C24_DeclaredTypes ==
    pc # "new" =>
        \A i \in 1..Len(tool_declarations) :
            LET ps == tools[i].params
                props == tool_declarations[i].properties
            IN  /\ Len(props) = Len(ps)
                /\ \A k \in 1..Len(ps) :
                      /\ props[k].name = ps[k].name
                      /\ props[k].type \in {"string", "integer", "number", "boolean"}
                      /\ ps[k].annotation = "int" => props[k].type = "integer"
                      /\ ps[k].annotation = "float" => props[k].type = "number"
                      /\ ps[k].annotation = "bool" => props[k].type = "boolean"
                      /\ ps[k].annotation \notin {"int", "float", "bool"}
                            => props[k].type = "string"

C24_Witness ==
    /\ pc = "idle"
    /\ Len(tools) = 2
    /\ tools[1].params = <<Param("b", "bool", FALSE), Param("a", "list", FALSE)>>
    /\ tools[2].params = <<Param("a", "empty", TRUE), Param("b", "int", FALSE)>>
    /\ tool_declarations[1].properties[2].type = "string"
    /\ tool_declarations[2].properties[1].type = "string"
    /\ tool_declarations[2].properties[2].type = "integer"

\* the turns of one invocation are adjacent in h and begin with its prompt
InBlocks(h) ==
    /\ \A i \in 1..Len(h) : \A k \in i..Len(h) :
          h[i].call = h[k].call => \A j \in i..k : h[j].call = h[i].call
    /\ \A i \in 1..Len(h) :
          (i = 1 \/ h[i - 1].call # h[i].call)
              => h[i] = UserTurn(PromptOf(h[i].call), h[i].call)

\* a batch of results of one invocation recorded after the prompt of
\* another invocation that began later
Interleaved(h) ==
    \E i \in 1..Len(h) : \E j \in i..Len(h) : \E k \in j..Len(h) :
        /\ h[i].call = h[k].call
        /\ h[j].call # h[i].call
        /\ h[j] = UserTurn(PromptOf(h[j].call), h[j].call)
        /\ h[k].role = "user"
        /\ h[k].parts # <<>>
        /\ h[k].parts[1].kind = "function_response"

\* C25: while no caller is left inside a call when the other one runs, the
\* turns of every tool_call form one block of the session, beginning with
\* its prompt; the reachable state in which two callers' turns interleave
\* is C25_Witness.
C25_SequentialCallsFormBlocks == ~other.preempted => InBlocks(history)

C25_Witness ==
    /\ other.preempted
    /\ Interleaved(history)
    /\ ~InBlocks(history)

\* the request a batch under execution serves next
NextRequest == function_calls[Len(function_results) + 1]

\* C26: tools are invoked one at a time in request order; every request
\* that names a registered tool and is acted upon makes one invocation of
\* that tool with the requested arguments, and there is no other invocation.
C26_OneInvocationPerRequest ==
    [][/\ invocations' # invocations
          => \/ invocations' = <<>>
             \/ /\ pc = "execute"
                /\ Len(function_results) < Len(function_calls)
                /\ ~Unregistered(Len(function_results) + 1)
                /\ invocations' = Append(invocations,
                                         [name |-> NextRequest.name, args |-> NextRequest.val])
       /\ function_results' # function_results
          => \/ function_results' = <<>>
             \/ /\ pc = "execute"
                /\ Len(function_results) < Len(function_calls)
                /\ Len(function_results') = Len(function_results) + 1
                /\ function_results'[Len(function_results')].name = NextRequest.name
                /\ IF Unregistered(Len(function_results) + 1)
                   THEN invocations' = invocations
                   ELSE Len(invocations') = Len(invocations) + 1
       /\ (pc = "execute" /\ function_calls' = function_calls
              /\ Len(function_results') = Len(function_calls))
          => Len(invocations') - Len(invocations) <= 1]_vars

C26_Witness ==
    /\ op = "tool_call" /\ pc = "execute" /\ rounds = 2 /\ memory
    /\ function_calls = <<FunctionCall("nope", <<"x">>), FunctionCall("echo", <<"y">>)>>
    /\ Len(function_results) = 2
    /\ invocations = <<[name |-> "echo", args |-> <<"x">>], [name |-> "echo", args |-> <<"y">>]>>

\* C27: what a stateless tool_call resubmits is two turns, the prompt and
\* one user turn with the results of the batch; the completion that asked
\* for the calls is not among them.
C27_StatelessResubmission ==
    (~memory /\ op = "tool_call" /\ rounds = 2)
        => /\ Len(submitted) = 2
           /\ submitted[1] = UserTurn(PromptOf(callNo), callNo)
           /\ submitted[2].role = "user"
           /\ Len(submitted[2].parts) = Len(function_calls)
           /\ \A i \in 1..Len(submitted[2].parts) :
                 /\ submitted[2].parts[i].kind = "function_response"
                 /\ submitted[2].parts[i].name = function_calls[i].name
           /\ \A i \in 1..Len(submitted) : submitted[i].role # "model"

C27_Witness ==
    /\ ~memory /\ op = "tool_call" /\ rounds = 2 /\ pc = "send_results"
    /\ Len(function_calls) = 2
    /\ Len(submitted) = 2

\* the first submission of the handler's agent is in flight
FirstSubmissionOfRequest ==
    request.stage = "ready" /\ op = "tool_call" /\ rounds = 1 /\ pc = "send_prompt"

\* the rows of the requesting user, oldest first
RowsOfUser == SelectSeq(chat_messages, LAMBDA r : r.user_id = request.user)

\* C28 (as claimed): the injected history ends with the current message and
\* the prompt submitted after it is that same message, so that the last two
\* turns the model sees are both the current message.
C28_MessageSubmittedTwice ==
    FirstSubmissionOfRequest
        => /\ last_n_messages[Len(last_n_messages)] = Message("user", request.message)
           /\ submitted[Len(submitted) - 1].parts = <<TextPart(request.message)>>
           /\ submitted[Len(submitted)].parts = <<TextPart(request.message)>>

\* C28 (amended): the injected history is the user's last ten rows, oldest
\* first, and ends with the current message; the prompt that follows it is
\* the message itself or, when the message holds a keyword, an instruction
\* that embeds the message: the text of the message is submitted twice.
C28_MessageTextSubmittedTwice ==
    FirstSubmissionOfRequest
        => /\ Len(last_n_messages) = Min(HistoryLimit, Len(RowsOfUser))
           /\ \A i \in 1..Len(last_n_messages) :
                 last_n_messages[i].content =
                     RowsOfUser[Len(RowsOfUser) - Len(last_n_messages) + i].content
           /\ last_n_messages[Len(last_n_messages)] = Message("user", request.message)
           /\ Len(submitted) = Len(last_n_messages) + 1
           /\ submitted[Len(submitted) - 1].role = "user"
           /\ submitted[Len(submitted) - 1].parts = <<TextPart(request.message)>>
           /\ submitted[Len(submitted)].role = "user"
           /\ LET p == submitted[Len(submitted)].parts[1].val
              IN  IF HasKeyword(request.message)
                  THEN /\ p # request.message
                       /\ \E i \in 1..Len(p) :
                             /\ i + Len(request.message) - 1 <= Len(p)
                             /\ SubSeq(p, i, i + Len(request.message) - 1) = request.message
                  ELSE p = request.message

C28_Witness ==
    /\ FirstSubmissionOfRequest
    /\ request.no = 2
    /\ HasKeyword(request.message)
    /\ Len(RowsOfUser) > HistoryLimit
    /\ Len(last_n_messages) = HistoryLimit
    /\ Len(chat_messages) > Len(RowsOfUser)

\* C29: an execution whose generate_report call has ended is "completed"
\* or "failed", never "running".
C29_NoExecutionLeftRunning ==
    \A i \in 1..Len(executions) :
        executions[i].returned => executions[i].status \in {"completed", "failed"}

\* C30: every tick queues one task for each enabled report whose next_run
\* has come, whatever is waiting, running or has failed; next_run changes
\* only in the step that completes an execution.  The reachable state with
\* two executions of one due occurrence is C30_Witness.
C30_TickQueuesEveryDueReport ==
    [][/\ now' # now
          => /\ \A r \in {"r1", "r2", "r3"} :
                   Len(SelectSeq(queue', LAMBDA q : q = r))
                     = Len(SelectSeq(queue, LAMBDA q : q = r))
                       + (IF reports[r].enabled /\ reports[r].next_run <= now'
                          THEN 1 ELSE 0)
             /\ SubSeq(queue', 1, Len(queue)) = queue
       /\ reports' # reports
          => \E i \in 1..Len(executions) :
                /\ executions[i].status = "running"
                /\ executions'[i].status = "completed"
                /\ executions'[i].returned]_vars

C30_Witness ==
    \E i \in 1..Len(executions) : \E j \in 1..Len(executions) :
        /\ i < j
        /\ executions[i].report_id = executions[j].report_id
        /\ executions[i].due = executions[j].due
        /\ executions[i].status = "running" /\ ~executions[i].returned
        /\ executions[j].status = "failed" /\ executions[j].returned
        /\ \E k \in 1..Len(queue) : queue[k] = executions[i].report_id

====
